---- MODULE Spec2Model ----
\* XP Tracker (src/app.py): the XP formula, the timed-session state machine
\* driven by Streamlit script runs, and the XP log with its files.
\*
\* Conventions of the model
\*   - XP amounts are decimals counted in hundredths of an XP (500 is 5.00
\*     XP); multipliers are counted in hundredths too (120 is 1.20). Where the
\*     program adds, subtracts or compares amounts it does so on floats, and
\*     so does the model (float64 arithmetic below).
\*   - datetime.now() is the variable `now`, in seconds.
\*   - Python None for start_time is NoTime, for session_type / a name is "None".
\*   - One action is one run of the script (top to bottom, cut short by
\*     st.rerun()) with the one widget event that triggered it.
EXTENDS Integers, Sequences, FiniteSets, TLC

\* ------------------------------------------------------------------ bounds
MaxLog == 3        \* most rows the XP log holds
MaxNow == 180      \* last clock value, in seconds
SecStep == 60      \* the clock advances in steps of this many seconds
MaxFaults == 1     \* most storage failures in one behaviour

\* ------------------------------------------------------- program constants
NoTime == -1                 \* start_time = None
SecondsPerMinute == 60       \* target_minutes * 60

\* ------------------------------------------------------------ input domains
TaskNames == {"Read"}
RewardNames == {"Game"}
MinuteInputs == {1, 2}

TaskDefs ==
  { [base_minutes |-> 1, base_xp |-> 700, multiplier |-> 100],
    [base_minutes |-> 2, base_xp |-> 550, multiplier |-> 120] }

RewardDefs ==
  { [base_minutes |-> 1, base_xp |-> 1000, multiplier |-> 120],
    [base_minutes |-> 2, base_xp |-> 1400, multiplier |-> 100] }

\* definitions with amounts that are no multiples of 1/4 XP (0.33 XP or
\* 0.90 XP for 3 minutes of the task; 0.12 XP, 0.21 XP or 0.30 XP for 3 minutes
\* of the reward)
CentTaskDefs ==
  { [base_minutes |-> 3, base_xp |-> 33, multiplier |-> 100],
    [base_minutes |-> 3, base_xp |-> 90, multiplier |-> 100] }

CentRewardDefs ==
  { [base_minutes |-> 3, base_xp |-> 12, multiplier |-> 100],
    [base_minutes |-> 3, base_xp |-> 21, multiplier |-> 100],
    [base_minutes |-> 3, base_xp |-> 30, multiplier |-> 100] }

\* inputs of the formula on its own
BaseMinutesInputs == {1, 2}
BaseXpInputs == {10, 250, 500, 550, 700, 1000}
MultiplierInputs == {100, 120, 150}
ActualMinutesInputs == {1, 2, 3, 4}
\* the task "Read" (10 minutes, 5.00 XP, multiplier 1.20) done for 5, 10 and
\* 20 minutes
ReadArgs ==
  [base_xp : {500}, base_minutes : {10}, multiplier : {120},
   actual_minutes : {5, 10, 20}]

\* ---------------------------------------------------------------- numbers
RECURSIVE GCD(_, _)
GCD(a, b) == IF b = 0 THEN a ELSE GCD(b, a % b)

RECURSIVE Pow(_, _)
Pow(x, n) == IF n = 0 THEN 1 ELSE x * Pow(x, n - 1)

\* the fraction n/d in lowest terms, as <<numerator, denominator>>
Rat(n, d) == LET g == GCD(n, d) IN <<n \div g, d \div g>>

\* round(n/d) to the nearest whole number, a tie going to the even one
\* (Python's round(x, 2) on a value counted in hundredths)
RoundHalfEven(n, d) ==
  LET q == n \div d
      r == n % d
  IN  IF 2 * r < d THEN q
      ELSE IF 2 * r > d THEN q + 1
      ELSE IF q % 2 = 0 THEN q ELSE q + 1

\* total_xp = proportional_xp * multiplier ** exponent compared with k + 1/2,
\* decided exactly by raising both sides to the exponent's denominator:
\*   -1 below, 0 equal, 1 above
CmpHalf(prop, mult, expo, k) ==
  LET lhs == Pow(2 * prop[1], expo[2]) * Pow(mult[1], expo[1])
      rhs == Pow((2 * k + 1) * prop[2], expo[2]) * Pow(mult[2], expo[1])
  IN  IF lhs < rhs THEN -1 ELSE IF lhs = rhs THEN 0 ELSE 1

\* np.round(total_xp, 0): the nearest whole number, a tie going to the even one
RECURSIVE NpRoundFrom(_, _, _, _)
NpRoundFrom(prop, mult, expo, k) ==
  LET c == CmpHalf(prop, mult, expo, k)
  IN  IF c < 0 \/ (c = 0 /\ k % 2 = 0) THEN k
      ELSE NpRoundFrom(prop, mult, expo, k + 1)

NpRound(prop, mult, expo) == NpRoundFrom(prop, mult, expo, 0)

\* ------------------------------------------------------ float64 arithmetic
\* The XP of a row and the balance are Python floats (IEEE 754 doubles). A
\* double x is kept exactly, as the record [h, e] that stands for
\*     x = (h + e / 2^ErrScale) / 100
\* h being whole hundredths of an XP and e what the double is off by. Every
\* double from 0.01 on is a multiple of 2^-ErrScale, and so is every sum and
\* difference of such doubles. (CHOOSE r \in {F(v) : v \in {a}} : TRUE is
\* F(a) with a worked out once.)
MantissaBits == 53
ErrScale == 59

FloatZero == [h |-> 0, e |-> 0]

FloatNeg(x) == CHOOSE r \in {[h |-> -v.h, e |-> -v.e] : v \in {x}} : TRUE

FloatSign(x) ==
  CHOOSE r \in
    { IF v.h > 0 THEN 1 ELSE IF v.h < 0 THEN -1
      ELSE IF v.e > 0 THEN 1 ELSE IF v.e < 0 THEN -1 ELSE 0 : v \in {x} } : TRUE

\* a < b as doubles
FloatLess(a, b) ==
  CHOOSE r \in
    { FloatSign([h |-> v.h - w.h, e |-> v.e - w.e]) < 0 : v \in {a}, w \in {b} }
    : TRUE

RECURSIVE Pow2Mod100(_)
Pow2Mod100(n) == IF n = 0 THEN 1 ELSE (2 * Pow2Mod100(n - 1)) % 100

\* x >= 2^j, for x > 0
AtLeastPow2(x, j) ==
  \E a \in {IF j >= 0 THEN x.h ELSE x.h * Pow(2, -j)},
     b \in {IF j >= 0 THEN 100 * Pow(2, j) ELSE 100} :
       a > b \/ (a = b /\ x.e >= 0)

\* the smallest binade a double above 0.01 lies in: 2^MinBinade <= 0.01
MinBinade == (MantissaBits - 1) - ErrScale

\* the j with 2^j <= x < 2^(j+1), for x >= 2^MinBinade
RECURSIVE BinadeFrom(_, _)
BinadeFrom(x, j) == IF AtLeastPow2(x, j + 1) THEN BinadeFrom(x, j + 1) ELSE j

\* x / 2^-ErrScale modulo 2^q, for x > 0 a multiple of 2^-ErrScale
MantissaMod(x, q) ==
  CHOOSE r \in
    { ((ulp * (((x.h % 100) * c) % 100) + x.e) % (100 * ulp)) \div 100 :
        c \in {Pow2Mod100(ErrScale - q)}, ulp \in {Pow(2, q)} } : TRUE

\* x > 0 rounded to a multiple of 2^q, rest being what it has above one; a
\* tie goes to the even multiple
RoundTo(x, q, rest) ==
  CHOOSE r \in
    { IF rest = 0 THEN x
      ELSE IF 2 * rest < ulp THEN [x EXCEPT !.e = @ - 100 * rest]
      ELSE IF 2 * rest > ulp THEN [x EXCEPT !.e = @ + 100 * (ulp - rest)]
      ELSE IF MantissaMod(x, q + 1) = rest
           THEN [x EXCEPT !.e = @ - 100 * rest]
           ELSE [x EXCEPT !.e = @ + 100 * (ulp - rest)] : ulp \in {Pow(2, q)} }
    : TRUE

\* x > 0, a multiple of 2^-ErrScale, rounded to MantissaBits significant bits
RoundPositive(x) ==
  IF x.e = 0 /\ x.h % 25 = 0 THEN x      \* a multiple of 1/4 is a double
  ELSE IF ~AtLeastPow2(x, MinBinade) THEN x
  ELSE CHOOSE r \in
         { RoundTo(x, q, MantissaMod(x, q)) :
             q \in {BinadeFrom(x, MinBinade) - MinBinade} } : TRUE

FloatRound(x) ==
  CHOOSE r \in
    { IF FloatSign(v) = 0 THEN v
      ELSE IF FloatSign(v) > 0 THEN RoundPositive(v)
      ELSE FloatNeg(RoundPositive(FloatNeg(v))) : v \in {x} } : TRUE

FloatAdd(a, b) ==
  CHOOSE r \in
    { FloatRound([h |-> v.h + w.h, e |-> v.e + w.e]) : v \in {a}, w \in {b} }
    : TRUE

FloatSub(a, b) ==
  CHOOSE r \in
    { FloatRound([h |-> v.h - w.h, e |-> v.e - w.e]) : v \in {a}, w \in {b} }
    : TRUE

\* k hundredths, in the binade whose doubles are 2^q apart (in units of
\* 2^-ErrScale), rounded to the nearest double; no tie occurs
Float64In(k, q) ==
  CHOOSE r \in
    { [h |-> k, e |-> Pow(2, q) * (IF rest < 50 THEN -rest ELSE 100 - rest)] :
        rest \in {((k % 100) * Pow2Mod100(ErrScale - q)) % 100} } : TRUE

\* the double nearest to k hundredths (float(k / 100), round(x, 2)), k >= 0
Float64(k) ==
  IF k % 25 = 0 THEN [h |-> k, e |-> 0]   \* a multiple of 1/4 is a double
  ELSE CHOOSE r \in
         { Float64In(k, q) :
             q \in {BinadeFrom([h |-> k, e |-> 0], MinBinade) - MinBinade} }
         : TRUE

\* --------------------------------------------------------------- XP formula
\* mutant: the proportional regime also taken at actual_minutes = base_minutes
calculate_task_xp_ThresholdIncluded(base_xp, base_minutes, multiplier, actual_minutes) ==
  IF actual_minutes <= base_minutes
  THEN RoundHalfEven(actual_minutes * base_xp, base_minutes)
  ELSE LET proportional_xp == Rat(base_xp * actual_minutes, 100 * base_minutes)
           exponent == Rat(actual_minutes - base_minutes, base_minutes)
           mult == Rat(multiplier, 100)
       IN  100 * NpRound(proportional_xp, mult, exponent)

\* mutant: the multiplier left out of the extended regime
calculate_task_xp_NoMultiplier(base_xp, base_minutes, multiplier, actual_minutes) ==
  IF actual_minutes < base_minutes
  THEN RoundHalfEven(actual_minutes * base_xp, base_minutes)
  ELSE LET proportional_xp == Rat(base_xp * actual_minutes, 100 * base_minutes)
           exponent == Rat(actual_minutes - base_minutes, base_minutes)
           mult == Rat(100, 100)
       IN  100 * NpRound(proportional_xp, mult, exponent)

calculate_task_xp(base_xp, base_minutes, multiplier, actual_minutes) ==
  IF actual_minutes < base_minutes
  THEN RoundHalfEven(actual_minutes * base_xp, base_minutes)
  ELSE LET proportional_xp == Rat(base_xp * actual_minutes, 100 * base_minutes)
           exponent == Rat(actual_minutes - base_minutes, base_minutes)
           mult == Rat(multiplier, 100)
       IN  100 * NpRound(proportional_xp, mult, exponent)

\* mutant: the proportional cost rounded to a whole number of XP
calculate_reward_cost_WholeCost(base_xp_cost, base_minutes, multiplier, actual_minutes) ==
  IF actual_minutes < base_minutes
  THEN 100 * RoundHalfEven(actual_minutes * base_xp_cost, 100 * base_minutes)
  ELSE LET proportional_xp == Rat(base_xp_cost * actual_minutes, 100 * base_minutes)
           exponent == Rat(actual_minutes - base_minutes, base_minutes)
           mult == Rat(multiplier, 100)
       IN  100 * NpRound(proportional_xp, mult, exponent)

calculate_reward_cost(base_xp_cost, base_minutes, multiplier, actual_minutes) ==
  IF actual_minutes < base_minutes
  THEN RoundHalfEven(actual_minutes * base_xp_cost, base_minutes)
  ELSE LET proportional_xp == Rat(base_xp_cost * actual_minutes, 100 * base_minutes)
           exponent == Rat(actual_minutes - base_minutes, base_minutes)
           mult == Rat(multiplier, 100)
       IN  100 * NpRound(proportional_xp, mult, exponent)

\* ------------------------------------------------------------------- state
VARIABLES
  tasks,            \* st.session_state.tasks: name -> definition
  rewards,          \* st.session_state.rewards: name -> definition
  log_df,           \* st.session_state.log_df: the XP log, a sequence of rows
  timer_active,     \* st.session_state.timer_active
  start_time,       \* st.session_state.start_time
  session_type,     \* st.session_state.session_type: "None", "add" or "spend"
  target_minutes,   \* st.session_state.target_minutes
  xp_value,         \* st.session_state.xp_value, in hundredths
  session_details,  \* st.session_state.session_details
  tasks_file,       \* tasks.json
  rewards_file,     \* rewards.json
  log_file,         \* xp_log.csv
  now,              \* datetime.now(), in seconds
  last,             \* the event of the latest script run and what it reported
  io_failures,      \* how many storage steps (os.remove, a write) have failed
  formula_args,     \* arguments of the latest call of the formula on its own
  formula_result    \* its result

session_vars ==
  <<timer_active, start_time, session_type, target_minutes, xp_value, session_details>>
store_vars == <<tasks, rewards, log_df>>
file_vars == <<tasks_file, rewards_file, log_file>>
app_vars == <<store_vars, session_vars, file_vars, now, last, io_failures>>
formula_vars == <<formula_args, formula_result>>
vars == <<app_vars, formula_vars>>

\* ------------------------------------------------------ dictionaries, files
NoDef == [base_minutes |-> 0, base_xp |-> 0, multiplier |-> 0]
EmptyDict == [n \in {} |-> NoDef]
DictSet(d, k, v) == [n \in DOMAIN d \cup {k} |-> IF n = k THEN v ELSE d[n]]
DictPop(d, k) == [n \in DOMAIN d \ {k} |-> d[n]]

\* session_details = {}
EmptyDetails == [name |-> "None", minutes |-> 0]
\* pd.DataFrame(columns=["time", "type", "name", "minutes", "xp"])
EmptyLog == << >>

NoJsonFile == [exists |-> FALSE, data |-> EmptyDict]
NoLogFile == [exists |-> FALSE, data |-> EmptyLog]

load_json(file) == IF file.exists THEN file.data ELSE EmptyDict
save_json(data) == [exists |-> TRUE, data |-> data]
load_log(file) == IF file.exists THEN file.data ELSE EmptyLog
save_log(df) == [exists |-> TRUE, data |-> df]

\* ----------------------------------------------------------------- balance
\* The xp of a row is kept in hundredths; the float the program holds is
\* Float64 of it.
RECURSIVE SumXpFrom(_, _, _)
SumXpFrom(df, type, acc) ==
  IF df = << >> THEN acc
  ELSE SumXpFrom(Tail(df), type,
                 IF Head(df).type = type
                 THEN FloatAdd(acc, Float64(Head(df).xp))
                 ELSE acc)

\* df.loc[df["type"] == type, "xp"].sum(): the floats added up row after row
SumXp(df, type) == SumXpFrom(df, type, FloatZero)

compute_total_xp(df) ==
  IF df = << >> THEN FloatZero
  ELSE FloatSub(SumXp(df, "Add"), SumXp(df, "Spend"))

\* ------------------------------------------------------------- script runs
\* What a script run works on: the session state and the files, and the
\* run's own position: rerun (st.rerun() was called, the run is over),
\* handled (the event's widget was reached), notices (messages shown) and
\* amount (xp_save_val of a start form).
Cur ==
  [ tasks |-> tasks, rewards |-> rewards, log_df |-> log_df,
    timer_active |-> timer_active, start_time |-> start_time,
    session_type |-> session_type, target_minutes |-> target_minutes,
    xp_value |-> xp_value, session_details |-> session_details,
    tasks_file |-> tasks_file, rewards_file |-> rewards_file,
    log_file |-> log_file,
    rerun |-> FALSE, handled |-> FALSE, notices |-> {}, amount |-> 0 ]

Event(kind, name, def, minutes) ==
  [kind |-> kind, name |-> name, def |-> def, minutes |-> minutes]

Max(a, b) == IF a >= b THEN a ELSE b

\* remaining_seconds of the running session at time t
RemainingSeconds(s, t) ==
  LET elapsed_seconds == t - s.start_time
      target_seconds == s.target_minutes * SecondsPerMinute
  IN  Max(0, target_seconds - elapsed_seconds)

\* with task_tab
TaskTab(s, ev) ==
  IF ev.kind = "task_submit"
  THEN IF ev.name = ""
       THEN [s EXCEPT !.handled = TRUE, !.notices = @ \cup {"invalid_task_name"}]
       ELSE LET t == DictSet(s.tasks, ev.name, ev.def)
            IN  [s EXCEPT !.tasks = t, !.tasks_file = save_json(t),
                          !.handled = TRUE, !.notices = @ \cup {"task_saved"}]
  ELSE IF ev.kind = "task_delete" /\ ev.name \in DOMAIN s.tasks
  THEN LET t == DictPop(s.tasks, ev.name)
       IN  [s EXCEPT !.tasks = t, !.tasks_file = save_json(t),
                     !.handled = TRUE, !.notices = @ \cup {"task_deleted"}]
  ELSE s

\* with reward_tab
RewardTab(s, ev) ==
  IF ev.kind = "reward_submit"
  THEN IF ev.name = ""
       THEN [s EXCEPT !.handled = TRUE, !.notices = @ \cup {"invalid_reward_name"}]
       ELSE LET r == DictSet(s.rewards, ev.name, ev.def)
            IN  [s EXCEPT !.rewards = r, !.rewards_file = save_json(r),
                          !.handled = TRUE, !.notices = @ \cup {"reward_saved"}]
  ELSE IF ev.kind = "reward_delete" /\ ev.name \in DOMAIN s.rewards
  THEN LET r == DictPop(s.rewards, ev.name)
       IN  [s EXCEPT !.rewards = r, !.rewards_file = save_json(r),
                     !.handled = TRUE, !.notices = @ \cup {"reward_deleted"}]
  ELSE s

\* mutant: the timer end forgets to reset session_type
AddTimerEnd_KeepsType(s, ev, t) ==
  LET row == [time |-> t, type |-> "Add", name |-> s.session_details.name,
              minutes |-> s.session_details.minutes, xp |-> s.xp_value]
      df == Append(s.log_df, row)
  IN  [s EXCEPT !.log_df = df, !.log_file = save_log(df),
                !.timer_active = FALSE, !.start_time = NoTime,
                !.notices = @ \cup {"earn_complete"},
                !.handled = @ \/ ev.kind = "tick", !.rerun = TRUE]

\* mutant: the timer end computes the XP anew from the task as it is defined
\* by then
AddTimerEnd_RecomputesXp(s, ev, t) ==
  LET name == s.session_details.name
      xp == IF name \in DOMAIN s.tasks
            THEN calculate_task_xp(s.tasks[name].base_xp, s.tasks[name].base_minutes,
                                   s.tasks[name].multiplier, s.session_details.minutes)
            ELSE s.xp_value
      row == [time |-> t, type |-> "Add", name |-> name,
              minutes |-> s.session_details.minutes, xp |-> xp]
      df == Append(s.log_df, row)
  IN  [s EXCEPT !.log_df = df, !.log_file = save_log(df),
                !.timer_active = FALSE, !.start_time = NoTime,
                !.session_type = "None",
                !.notices = @ \cup {"earn_complete"},
                !.handled = @ \/ ev.kind = "tick", !.rerun = TRUE]

\* mutant: the timer end puts the new row in front of the log
AddTimerEnd_Prepends(s, ev, t) ==
  LET row == [time |-> t, type |-> "Add", name |-> s.session_details.name,
              minutes |-> s.session_details.minutes, xp |-> s.xp_value]
      df == <<row>> \o s.log_df
  IN  [s EXCEPT !.log_df = df, !.log_file = save_log(df),
                !.timer_active = FALSE, !.start_time = NoTime,
                !.session_type = "None",
                !.notices = @ \cup {"earn_complete"},
                !.handled = @ \/ ev.kind = "tick", !.rerun = TRUE]

\* add_tab, timer end: award XP, reset timer state, rerun
AddTimerEnd(s, ev, t) ==
  LET row == [time |-> t, type |-> "Add", name |-> s.session_details.name,
              minutes |-> s.session_details.minutes, xp |-> s.xp_value]
      df == Append(s.log_df, row)
  IN  [s EXCEPT !.log_df = df, !.log_file = save_log(df),
                !.timer_active = FALSE, !.start_time = NoTime,
                !.session_type = "None",
                !.notices = @ \cup {"earn_complete"},
                !.handled = @ \/ ev.kind = "tick", !.rerun = TRUE]

\* mutant: the Earn start logs the XP at once, as the Spend start does
AddStart_LogsAtStart(s, ev, t) ==
  LET base == s.tasks[ev.name]
      xp_calc == calculate_task_xp(base.base_xp, base.base_minutes,
                                   base.multiplier, ev.minutes)
      row == [time |-> t, type |-> "Add", name |-> ev.name,
              minutes |-> ev.minutes, xp |-> xp_calc]
      df == Append(s.log_df, row)
  IN  [s EXCEPT !.log_df = df, !.log_file = save_log(df),
                !.timer_active = TRUE, !.start_time = t,
                !.session_type = "add", !.target_minutes = ev.minutes,
                !.xp_value = xp_calc,
                !.session_details = [name |-> ev.name, minutes |-> ev.minutes],
                !.amount = xp_calc,
                !.notices = @ \cup {"earn_started"},
                !.handled = TRUE, !.rerun = TRUE]

\* add_tab, the start button of the idle form
AddStart(s, ev, t) ==
  LET base == s.tasks[ev.name]
      xp_calc == calculate_task_xp(base.base_xp, base.base_minutes,
                                   base.multiplier, ev.minutes)
  IN  [s EXCEPT !.timer_active = TRUE, !.start_time = t,
                !.session_type = "add", !.target_minutes = ev.minutes,
                !.xp_value = xp_calc,
                !.session_details = [name |-> ev.name, minutes |-> ev.minutes],
                !.amount = xp_calc,
                !.notices = @ \cup {"earn_started"},
                !.handled = TRUE, !.rerun = TRUE]

\* mutant: every run of the running view takes the start time anew
AddTab_RestartsClock(s, ev, t) ==
  IF s.timer_active /\ s.session_type = "add"
  THEN IF RemainingSeconds(s, t) <= 0
       THEN AddTimerEnd(s, ev, t)
       ELSE [s EXCEPT !.start_time = t,
                      !.handled = @ \/ ev.kind = "tick", !.rerun = TRUE]
  ELSE IF ev.kind = "start_add" /\ ev.name \in DOMAIN s.tasks
       THEN AddStart(s, ev, t)
       ELSE s

\* mutant: the timer ends only when the remaining time is below zero
AddTab_StrictRemaining(s, ev, t) ==
  IF s.timer_active /\ s.session_type = "add"
  THEN IF RemainingSeconds(s, t) < 0
       THEN AddTimerEnd(s, ev, t)
       ELSE [s EXCEPT !.handled = @ \/ ev.kind = "tick", !.rerun = TRUE]
  ELSE IF ev.kind = "start_add" /\ ev.name \in DOMAIN s.tasks
       THEN AddStart(s, ev, t)
       ELSE s

\* with add_tab
AddTab(s, ev, t) ==
  IF s.timer_active /\ s.session_type = "add"
  THEN IF RemainingSeconds(s, t) <= 0
       THEN AddTimerEnd(s, ev, t)
       ELSE [s EXCEPT !.handled = @ \/ ev.kind = "tick", !.rerun = TRUE]
  ELSE IF ev.kind = "start_add" /\ ev.name \in DOMAIN s.tasks
       THEN AddStart(s, ev, t)
       ELSE s

\* mutant: the Spend timer end logs the XP again, as the Earn timer end does
SpendTimerEnd_LogsAgain(s, ev, t) ==
  LET row == [time |-> t, type |-> "Spend", name |-> s.session_details.name,
              minutes |-> s.session_details.minutes, xp |-> s.xp_value]
      df == Append(s.log_df, row)
  IN  [s EXCEPT !.log_df = df, !.log_file = save_log(df),
                !.timer_active = FALSE, !.start_time = NoTime,
                !.session_type = "None",
                !.notices = @ \cup {"spend_complete"},
                !.handled = @ \/ ev.kind = "tick", !.rerun = TRUE]

\* spend_tab, timer end: reset timer state, rerun
SpendTimerEnd(s, ev, t) ==
  [s EXCEPT !.timer_active = FALSE, !.start_time = NoTime,
            !.session_type = "None",
            !.notices = @ \cup {"spend_complete"},
            !.handled = @ \/ ev.kind = "tick", !.rerun = TRUE]

\* spend_tab, the idle form and its start button
SpendStart(s, ev, t) ==
  LET balance == compute_total_xp(s.log_df)
      rbase == s.rewards[ev.name]
      xp_cost == calculate_reward_cost(rbase.base_xp, rbase.base_minutes,
                                       rbase.multiplier, ev.minutes)
      row == [time |-> t, type |-> "Spend", name |-> ev.name,
              minutes |-> ev.minutes, xp |-> xp_cost]
      df == Append(s.log_df, row)
  IN  IF FloatLess(balance, Float64(xp_cost))
      THEN [s EXCEPT !.amount = xp_cost,
                     !.notices = @ \cup {"not_enough_xp"}, !.handled = TRUE]
      ELSE [s EXCEPT !.log_df = df, !.log_file = save_log(df),
                     !.timer_active = TRUE, !.start_time = t,
                     !.session_type = "spend", !.target_minutes = ev.minutes,
                     !.xp_value = xp_cost,
                     !.session_details = [name |-> ev.name, minutes |-> ev.minutes],
                     !.amount = xp_cost,
                     !.notices = @ \cup {"spend_started"},
                     !.handled = TRUE, !.rerun = TRUE]

\* with spend_tab
SpendTab(s, ev, t) ==
  IF s.timer_active /\ s.session_type = "spend"
  THEN IF RemainingSeconds(s, t) <= 0
       THEN SpendTimerEnd(s, ev, t)
       ELSE [s EXCEPT !.handled = @ \/ ev.kind = "tick", !.rerun = TRUE]
  ELSE IF ev.kind = "start_spend" /\ ev.name \in DOMAIN s.rewards
       THEN SpendStart(s, ev, t)
       ELSE s

\* mutant: undo drops the first row instead of the last
undo_last_action_DropsFirst(s) ==
  IF s.log_df = << >>
  THEN [s EXCEPT !.notices = @ \cup {"undo_empty"}, !.handled = TRUE]
  ELSE LET df == Tail(s.log_df)
       IN  [s EXCEPT !.log_df = df, !.log_file = save_log(df),
                     !.notices = @ \cup {"undo_ok"},
                     !.handled = TRUE, !.rerun = TRUE]

\* mutant: undo without the check for an empty log
undo_last_action_NoEmptyCheck(s) ==
  LET df == SubSeq(s.log_df, 1, Len(s.log_df) - 1)
  IN  [s EXCEPT !.log_df = df, !.log_file = save_log(df),
                !.notices = @ \cup {"undo_ok"},
                !.handled = TRUE, !.rerun = TRUE]

undo_last_action(s) ==
  IF s.log_df = << >>
  THEN [s EXCEPT !.notices = @ \cup {"undo_empty"}, !.handled = TRUE]
  ELSE LET df == SubSeq(s.log_df, 1, Len(s.log_df) - 1)
       IN  [s EXCEPT !.log_df = df, !.log_file = save_log(df),
                     !.notices = @ \cup {"undo_ok"},
                     !.handled = TRUE, !.rerun = TRUE]

reset_xp_log(s) ==
  [s EXCEPT !.log_df = EmptyLog, !.log_file = save_log(EmptyLog),
            !.notices = @ \cup {"reset_xp_ok"}, !.handled = TRUE, !.rerun = TRUE]

\* mutant: the reset of the tasks takes the rewards along
reset_tasks_ClearsRewards(s) ==
  [s EXCEPT !.tasks = EmptyDict, !.tasks_file = save_json(EmptyDict),
            !.rewards = EmptyDict, !.rewards_file = save_json(EmptyDict),
            !.notices = @ \cup {"reset_tasks_ok"}, !.handled = TRUE, !.rerun = TRUE]

reset_tasks(s) ==
  [s EXCEPT !.tasks = EmptyDict, !.tasks_file = save_json(EmptyDict),
            !.notices = @ \cup {"reset_tasks_ok"}, !.handled = TRUE, !.rerun = TRUE]

reset_rewards(s) ==
  [s EXCEPT !.rewards = EmptyDict, !.rewards_file = save_json(EmptyDict),
            !.notices = @ \cup {"reset_rewards_ok"}, !.handled = TRUE, !.rerun = TRUE]

reset_all_data(s) ==
  [s EXCEPT !.tasks = EmptyDict, !.rewards = EmptyDict, !.log_df = EmptyLog,
            !.tasks_file = save_json(EmptyDict),
            !.rewards_file = save_json(EmptyDict),
            !.log_file = save_log(EmptyLog),
            !.notices = @ \cup {"reset_all_ok"}, !.handled = TRUE, !.rerun = TRUE]

\* with reset_tab
ResetTab(s, ev) ==
  IF ev.kind = "undo" THEN undo_last_action(s)
  ELSE IF ev.kind = "reset_xp" THEN reset_xp_log(s)
  ELSE IF ev.kind = "reset_tasks" THEN reset_tasks(s)
  ELSE IF ev.kind = "reset_rewards" THEN reset_rewards(s)
  ELSE IF ev.kind = "reset_all" THEN reset_all_data(s)
  ELSE s

\* one run of app.py from top to bottom at time t; st.rerun() ends the run
ScriptRun(s, ev, t) ==
  LET s1 == TaskTab(s, ev)
      s2 == RewardTab(s1, ev)
      s3 == AddTab(s2, ev, t)
      s4 == IF s3.rerun THEN s3 ELSE SpendTab(s3, ev, t)
      s5 == IF s4.rerun THEN s4 ELSE ResetTab(s4, ev)
  IN  s5

\* the bound on the log: a row fits, and so does the row a running
\* Earn session will add
LogRoom(r) ==
  Len(r.log_df) + (IF r.timer_active /\ r.session_type = "add" THEN 1 ELSE 0)
    <= MaxLog

\* the bound on the clock: the clock, which takes the values 0, SecStep,
\* 2 * SecStep, ... up to MaxNow, gets to the end of the session that runs
ClockRoom(r) ==
  r.timer_active =>
    LET deadline == r.start_time + r.target_minutes * SecondsPerMinute
    IN  ((deadline + SecStep - 1) \div SecStep) * SecStep <= MaxNow

\* the event's widget is reached by the run it triggers (and the bounds
\* leave room for what the run writes and for the session it starts)
Handled(ev) ==
  \E r \in {ScriptRun(Cur, ev, now)} : r.handled /\ LogRoom(r) /\ ClockRoom(r)

\* the run triggered by event ev takes effect
Effect(ev) ==
  \E r \in {ScriptRun(Cur, ev, now)} :
      /\ tasks' = r.tasks
      /\ rewards' = r.rewards
      /\ log_df' = r.log_df
      /\ timer_active' = r.timer_active
      /\ start_time' = r.start_time
      /\ session_type' = r.session_type
      /\ target_minutes' = r.target_minutes
      /\ xp_value' = r.xp_value
      /\ session_details' = r.session_details
      /\ tasks_file' = r.tasks_file
      /\ rewards_file' = r.rewards_file
      /\ log_file' = r.log_file
      /\ last' = [kind |-> ev.kind, notices |-> r.notices, amount |-> r.amount]
      /\ UNCHANGED <<now, io_failures, formula_vars>>

\* --------------------------------------------------------------- the start
NoResult == [fn |-> "none", value |-> 0]
NoArgs == [base_xp |-> 0, base_minutes |-> 0, multiplier |-> 0, actual_minutes |-> 0]

Init ==
  /\ tasks_file = NoJsonFile
  /\ rewards_file = NoJsonFile
  /\ log_file = NoLogFile
  /\ tasks = load_json(tasks_file)
  /\ rewards = load_json(rewards_file)
  /\ log_df = load_log(log_file)
  /\ timer_active = FALSE
  /\ start_time = NoTime
  /\ session_type = "None"
  /\ target_minutes = 0
  /\ xp_value = 0
  /\ session_details = EmptyDetails
  /\ now = 0
  /\ last = [kind |-> "init", notices |-> {}, amount |-> 0]
  /\ io_failures = 0
  /\ formula_args = NoArgs
  /\ formula_result = NoResult

\* ----------------------------------------------------------------- actions
\* the clock of the host
AdvanceClock ==
  /\ now + SecStep <= MaxNow
  /\ now' = now + SecStep
  /\ last' = [kind |-> "clock", notices |-> {}, amount |-> 0]
  /\ UNCHANGED <<store_vars, session_vars, file_vars, io_failures, formula_vars>>

\* the rerun a running session schedules every second
Tick ==
  \E ev \in {Event("tick", "", NoDef, 0)} :
    /\ Handled(ev)
    /\ Effect(ev)

TaskSubmit ==
  \E n \in TaskNames \cup {""}, d \in TaskDefs :
    /\ Handled(Event("task_submit", n, d, 0))
    /\ Effect(Event("task_submit", n, d, 0))

TaskDelete ==
  \E n \in TaskNames :
    /\ Handled(Event("task_delete", n, NoDef, 0))
    /\ Effect(Event("task_delete", n, NoDef, 0))

RewardSubmit ==
  \E n \in RewardNames \cup {""}, d \in RewardDefs :
    /\ Handled(Event("reward_submit", n, d, 0))
    /\ Effect(Event("reward_submit", n, d, 0))

RewardDelete ==
  \E n \in RewardNames :
    /\ Handled(Event("reward_delete", n, NoDef, 0))
    /\ Effect(Event("reward_delete", n, NoDef, 0))

StartAdd ==
  \E n \in TaskNames, m \in MinuteInputs :
    /\ Handled(Event("start_add", n, NoDef, m))
    /\ Effect(Event("start_add", n, NoDef, m))

StartSpend ==
  \E n \in RewardNames, m \in MinuteInputs :
    /\ Handled(Event("start_spend", n, NoDef, m))
    /\ Effect(Event("start_spend", n, NoDef, m))

Undo ==
  \E ev \in {Event("undo", "", NoDef, 0)} :
    /\ Handled(ev)
    /\ Effect(ev)

ResetXpLog ==
  \E ev \in {Event("reset_xp", "", NoDef, 0)} :
    /\ Handled(ev)
    /\ Effect(ev)

ResetTasks ==
  \E ev \in {Event("reset_tasks", "", NoDef, 0)} :
    /\ Handled(ev)
    /\ Effect(ev)

ResetRewards ==
  \E ev \in {Event("reset_rewards", "", NoDef, 0)} :
    /\ Handled(ev)
    /\ Effect(ev)

ResetAll ==
  \E ev \in {Event("reset_all", "", NoDef, 0)} :
    /\ Handled(ev)
    /\ Effect(ev)

Next ==
  \/ AdvanceClock
  \/ Tick
  \/ TaskSubmit
  \/ TaskDelete
  \/ RewardSubmit
  \/ RewardDelete
  \/ StartAdd
  \/ StartSpend
  \/ Undo
  \/ ResetXpLog
  \/ ResetTasks
  \/ ResetRewards
  \/ ResetAll

Spec == Init /\ [][Next]_vars

\* A running session reruns the script every second (time.sleep(1) followed
\* by st.rerun() in the running view), and the clock of the host goes on.
LiveSpec == Spec /\ WF_vars(Tick) /\ WF_vars(AdvanceClock)

\* ------------------------------------------- amounts of a few hundredths
\* The same program, its forms filled in with base XP of a few hundredths.
TaskSubmitCents ==
  \E n \in TaskNames, d \in CentTaskDefs :
    /\ Handled(Event("task_submit", n, d, 0))
    /\ Effect(Event("task_submit", n, d, 0))

RewardSubmitCents ==
  \E n \in RewardNames, d \in CentRewardDefs :
    /\ Handled(Event("reward_submit", n, d, 0))
    /\ Effect(Event("reward_submit", n, d, 0))

CentNext ==
  \/ AdvanceClock
  \/ Tick
  \/ TaskSubmitCents
  \/ RewardSubmitCents
  \/ StartAdd
  \/ StartSpend
  \/ Undo
  \/ ResetXpLog

CentSpec == Init /\ [][CentNext]_vars

\* ------------------------------------------------------- failing storage
\* A storage step (os.remove, json.dump, to_csv) may raise. Nothing in app.py
\* catches the exception: the run stops there, what it had already assigned to
\* st.session_state or done to the files stays, the file of the failing step
\* is left as it was, and no st.rerun() follows.
ResetKinds == {"reset_xp", "reset_tasks", "reset_rewards", "reset_all"}

\* the statements of a reset function, in the order of the code
ResetSteps(kind) ==
  CASE kind = "reset_all" ->
         << "remove_tasks", "remove_rewards", "remove_log",
            "clear_tasks", "clear_rewards", "clear_log",
            "save_tasks", "save_rewards", "save_log" >>
    [] kind = "reset_xp" -> << "remove_log", "clear_log", "save_log" >>
    [] kind = "reset_tasks" -> << "remove_tasks", "clear_tasks", "save_tasks" >>
    [] kind = "reset_rewards" ->
         << "remove_rewards", "clear_rewards", "save_rewards" >>

\* the statement touches storage in state s (os.remove runs only when
\* os.path.exists says the file is there)
StorageStep(s, step) ==
  CASE step = "remove_tasks" -> s.tasks_file.exists
    [] step = "remove_rewards" -> s.rewards_file.exists
    [] step = "remove_log" -> s.log_file.exists
    [] step \in {"save_tasks", "save_rewards", "save_log"} -> TRUE
    [] OTHER -> FALSE

DoStep(s, step) ==
  CASE step = "remove_tasks" -> [s EXCEPT !.tasks_file = NoJsonFile]
    [] step = "remove_rewards" -> [s EXCEPT !.rewards_file = NoJsonFile]
    [] step = "remove_log" -> [s EXCEPT !.log_file = NoLogFile]
    [] step = "clear_tasks" -> [s EXCEPT !.tasks = EmptyDict]
    [] step = "clear_rewards" -> [s EXCEPT !.rewards = EmptyDict]
    [] step = "clear_log" -> [s EXCEPT !.log_df = EmptyLog]
    [] step = "save_tasks" -> [s EXCEPT !.tasks_file = save_json(s.tasks)]
    [] step = "save_rewards" -> [s EXCEPT !.rewards_file = save_json(s.rewards)]
    [] step = "save_log" -> [s EXCEPT !.log_file = save_log(s.log_df)]

\* the first n statements done
RECURSIVE DoSteps(_, _, _)
DoSteps(s, steps, n) ==
  IF n = 0 THEN s ELSE DoStep(DoSteps(s, steps, n - 1), steps[n])

\* a reset function whose k-th statement raises
ResetFails(s, kind, k) ==
  LET steps == ResetSteps(kind)
      before == DoSteps(s, steps, k - 1)
  IN  IF k <= Len(steps) /\ StorageStep(before, steps[k])
      THEN [before EXCEPT !.notices = @ \cup {"exception"}, !.handled = TRUE]
      ELSE s

\* add_tab, timer end, save_log raises: the row is in log_df, the timer state
\* is not reset
AddTimerEnd_SaveFails(s, ev, t) ==
  LET row == [time |-> t, type |-> "Add", name |-> s.session_details.name,
              minutes |-> s.session_details.minutes, xp |-> s.xp_value]
      df == Append(s.log_df, row)
  IN  [s EXCEPT !.log_df = df,
                !.notices = @ \cup {"exception"}, !.handled = TRUE]

\* spend_tab, start button, save_log raises: the row is in log_df, no timer
\* is started
SpendStart_SaveFails(s, ev, t) ==
  LET balance == compute_total_xp(s.log_df)
      rbase == s.rewards[ev.name]
      xp_cost == calculate_reward_cost(rbase.base_xp, rbase.base_minutes,
                                       rbase.multiplier, ev.minutes)
      row == [time |-> t, type |-> "Spend", name |-> ev.name,
              minutes |-> ev.minutes, xp |-> xp_cost]
      df == Append(s.log_df, row)
  IN  IF FloatLess(balance, Float64(xp_cost))
      THEN s
      ELSE [s EXCEPT !.log_df = df, !.amount = xp_cost,
                     !.notices = @ \cup {"exception"}, !.handled = TRUE]

\* undo_last_action, save_log raises: the row is gone from log_df only
undo_last_action_SaveFails(s) ==
  IF s.log_df = << >>
  THEN s
  ELSE LET df == SubSeq(s.log_df, 1, Len(s.log_df) - 1)
       IN  [s EXCEPT !.log_df = df,
                     !.notices = @ \cup {"exception"}, !.handled = TRUE]

\* one run of app.py at time t in which the k-th storage statement of the
\* handler it reaches raises
FaultyRun(s, ev, t, k) ==
  IF s.timer_active /\ s.session_type = "add"
  THEN IF ev.kind = "tick" /\ RemainingSeconds(s, t) <= 0 /\ k = 1
       THEN AddTimerEnd_SaveFails(s, ev, t)
       ELSE s
  ELSE IF s.timer_active /\ s.session_type = "spend"
  THEN s
  ELSE IF ev.kind = "start_spend" /\ ev.name \in DOMAIN s.rewards /\ k = 1
  THEN SpendStart_SaveFails(s, ev, t)
  ELSE IF ev.kind = "undo" /\ k = 1
  THEN undo_last_action_SaveFails(s)
  ELSE IF ev.kind \in ResetKinds
  THEN ResetFails(s, ev.kind, k)
  ELSE s

FaultHandled(ev, k) ==
  /\ io_failures < MaxFaults
  /\ \E r \in {FaultyRun(Cur, ev, now, k)} : r.handled /\ LogRoom(r)

FaultEffect(ev, k) ==
  \E r \in {FaultyRun(Cur, ev, now, k)} :
      /\ tasks' = r.tasks
      /\ rewards' = r.rewards
      /\ log_df' = r.log_df
      /\ timer_active' = r.timer_active
      /\ start_time' = r.start_time
      /\ session_type' = r.session_type
      /\ target_minutes' = r.target_minutes
      /\ xp_value' = r.xp_value
      /\ session_details' = r.session_details
      /\ tasks_file' = r.tasks_file
      /\ rewards_file' = r.rewards_file
      /\ log_file' = r.log_file
      /\ last' = [kind |-> ev.kind, notices |-> r.notices, amount |-> r.amount]
      /\ io_failures' = io_failures + 1
      /\ UNCHANGED <<now, formula_vars>>

\* the completion run of an Earn session, save_log raising
FailingTick ==
  \E ev \in {Event("tick", "", NoDef, 0)} :
    /\ FaultHandled(ev, 1)
    /\ FaultEffect(ev, 1)

FailingStartSpend ==
  \E n \in RewardNames, m \in MinuteInputs :
    /\ FaultHandled(Event("start_spend", n, NoDef, m), 1)
    /\ FaultEffect(Event("start_spend", n, NoDef, m), 1)

FailingUndo ==
  \E ev \in {Event("undo", "", NoDef, 0)} :
    /\ FaultHandled(ev, 1)
    /\ FaultEffect(ev, 1)

FailingReset ==
  \E kind \in ResetKinds, k \in 1..Len(ResetSteps("reset_all")) :
    /\ FaultHandled(Event(kind, "", NoDef, 0), k)
    /\ FaultEffect(Event(kind, "", NoDef, 0), k)

\* a run with every storage step succeeding, while the storage has not failed
\* MaxFaults times
ReliableStep ==
  /\ io_failures < MaxFaults
  /\ Next

FaultNext ==
  \/ ReliableStep
  \/ FailingTick
  \/ FailingStartSpend
  \/ FailingUndo
  \/ FailingReset

FaultSpec == Init /\ [][FaultNext]_vars

\* ------------------------------------------------- the formula on its own
FormulaArgs ==
  [base_xp : BaseXpInputs, base_minutes : BaseMinutesInputs,
   multiplier : MultiplierInputs, actual_minutes : ActualMinutesInputs]
    \cup ReadArgs

CallTaskXp ==
  /\ \E a \in FormulaArgs :
       /\ formula_args' = a
       /\ formula_result' =
            [fn |-> "calculate_task_xp",
             value |-> calculate_task_xp(a.base_xp, a.base_minutes,
                                         a.multiplier, a.actual_minutes)]
  /\ UNCHANGED app_vars

CallRewardCost ==
  /\ \E a \in FormulaArgs :
       /\ formula_args' = a
       /\ formula_result' =
            [fn |-> "calculate_reward_cost",
             value |-> calculate_reward_cost(a.base_xp, a.base_minutes,
                                             a.multiplier, a.actual_minutes)]
  /\ UNCHANGED app_vars

FormulaNext ==
  \/ CallTaskXp
  \/ CallRewardCost

FormulaSpec == Init /\ [][FormulaNext]_vars

\* ------------------------------------------------------- statistics views
\* stats_tab: r["xp"] if r["type"] == "Add" else -r["xp"]
signed_xp(r) ==
  IF r.type = "Add" THEN Float64(r.xp) ELSE FloatNeg(Float64(r.xp))

RECURSIVE InsertByTime(_, _)
InsertByTime(sorted, r) ==
  IF sorted = << >> THEN <<r>>
  ELSE IF r.time < Head(sorted).time THEN <<r>> \o sorted
  ELSE <<Head(sorted)>> \o InsertByTime(Tail(sorted), r)

RECURSIVE SortByTime(_)
\* df.sort_values("time")
SortByTime(df) ==
  IF df = << >> THEN << >>
  ELSE InsertByTime(SortByTime(SubSeq(df, 1, Len(df) - 1)), df[Len(df)])

RECURSIVE CumSumFrom(_, _)
CumSumFrom(df, acc) ==
  IF df = << >> THEN << >>
  ELSE <<FloatAdd(acc, signed_xp(Head(df)))>>
         \o CumSumFrom(Tail(df), FloatAdd(acc, signed_xp(Head(df))))

\* stats_tab: df_sorted["signed_xp"].cumsum()
CumulativeSeries(df) == CumSumFrom(SortByTime(df), FloatZero)

\* --------------------------------------------------------------- properties
Balance == compute_total_xp(log_df)
RECURSIVE ExactBalance(_)
\* the balance as the decimal number the spec means, in hundredths: the amounts
\* of the Add rows minus the amounts of the Spend rows
ExactBalance(df) ==
  IF df = << >> THEN 0
  ELSE ExactBalance(Tail(df))
         + (IF Head(df).type = "Add" THEN Head(df).xp ELSE -Head(df).xp)
EarnRunning == timer_active /\ session_type = "add"
SpendRunning == timer_active /\ session_type = "spend"
\* remaining_seconds of the running session, as the next run would compute it
Remaining == RemainingSeconds(Cur, now)
StartKinds == {"start_add", "start_spend"}

\* C1: a start request made while a session is active changes neither the
\* session fields nor the XP log, whichever session runs and whichever start
\* button is pressed.
C1_StartWhileActiveRejected ==
  [][(timer_active /\ last'.kind \in StartKinds)
       => UNCHANGED <<session_vars, log_df>>]_vars

\* C2: an Earn start leaves the XP log unchanged, the log stays unchanged while
\* the Earn session runs, the completion run (remaining <= 0) appends exactly
\* the one row {now, Add, name, target minutes, amount} of the session and ends
\* it, and no other step appends an Add row.
C2_EarnEntryOnlyAtCompletion ==
  [][/\ (~EarnRunning /\ EarnRunning') => log_df' = log_df
     /\ (EarnRunning /\ EarnRunning') => log_df' = log_df
     /\ (EarnRunning /\ ~EarnRunning')
          => /\ Remaining <= 0
             /\ ~timer_active'
             /\ log_df' = Append(log_df,
                                 [time |-> now, type |-> "Add",
                                  name |-> session_details.name,
                                  minutes |-> target_minutes,
                                  xp |-> xp_value])
     /\ (Len(log_df') > Len(log_df) /\ log_df'[Len(log_df')].type = "Add")
          => (EarnRunning /\ ~EarnRunning')
    ]_vars

\* an Earn session has just completed and its row is the last of the log
C2_Witness ==
  /\ "earn_complete" \in last.notices
  /\ ~timer_active
  /\ log_df # << >>
  /\ log_df[Len(log_df)].type = "Add"
  /\ log_df[Len(log_df)].xp = xp_value

\* C3: a Spend start appends exactly the one row {now, Spend, name, target
\* minutes, amount} in the start step itself, and no step taken while the
\* Spend session runs (a tick, its completion) changes the XP log.
C3_SpendEntryOnlyAtStart ==
  [][/\ (~SpendRunning /\ SpendRunning')
          => log_df' = Append(log_df,
                              [time |-> now, type |-> "Spend",
                               name |-> session_details'.name,
                               minutes |-> target_minutes',
                               xp |-> xp_value'])
     /\ SpendRunning => log_df' = log_df
    ]_vars

\* a Spend session has just completed; its one row is still the last of the log
C3_Witness ==
  /\ "spend_complete" \in last.notices
  /\ ~timer_active
  /\ log_df # << >>
  /\ log_df[Len(log_df)].type = "Spend"
  /\ log_df[Len(log_df)].xp = xp_value
  /\ log_df[Len(log_df)].minutes = target_minutes

\* C4: a Spend start whose amount exceeds the balance is reported and writes
\* nothing and starts nothing; one whose amount is at most the balance starts
\* the Spend session and lowers the balance by exactly the amount.  The balance
\* is the decimal sum of the log's amounts, the displayed balance its double.
C4_SpendNeedsBalance ==
  [][last'.kind = "start_spend"
       => IF last'.amount > ExactBalance(log_df)
          THEN /\ "not_enough_xp" \in last'.notices
               /\ UNCHANGED <<log_df, log_file, session_vars>>
               /\ ~timer_active'
          ELSE /\ "spend_started" \in last'.notices
               /\ SpendRunning'
               /\ xp_value' = last'.amount
               /\ compute_total_xp(log_df')
                    = Float64(ExactBalance(log_df) - last'.amount)
    ]_vars

\* C5: while a session runs and its time has not elapsed, every step leaves
\* the session running with the same kind, name, target minutes, amount and
\* start time.
C5_NoCancellation ==
  [][(timer_active /\ Remaining > 0) => UNCHANGED session_vars]_vars

\* C6: every step that lengthens the XP log appends one row at its end, and a
\* successful undo takes a log Append(L, e) back to L, with the balance back
\* at its value before e was appended; the file holds the same log.
C6_UndoInverse ==
  [][/\ Len(log_df') > Len(log_df)
          => log_df' = Append(log_df, log_df'[Len(log_df')])
     /\ (last'.kind = "undo" /\ log_df # << >>)
          => /\ "undo_ok" \in last'.notices
             /\ log_df = Append(log_df', log_df[Len(log_df)])
             /\ compute_total_xp(log_df')
                  = compute_total_xp(SubSeq(log_df, 1, Len(log_df) - 1))
             /\ log_file' = save_log(log_df')
    ]_vars

\* an undo has just removed a row and rows remain
C6_Witness ==
  /\ last.kind = "undo"
  /\ "undo_ok" \in last.notices
  /\ log_df # << >>
  /\ FloatLess(FloatZero, Balance)

\* C7: undo on an empty XP log reports that there is nothing to undo and
\* changes neither the log (in memory and on file) nor the definitions nor
\* the session.
C7_UndoEmptyNoOp ==
  [][(last'.kind = "undo" /\ log_df = << >>)
       => /\ "undo_empty" \in last'.notices
          /\ UNCHANGED <<store_vars, session_vars, file_vars>>
    ]_vars

\* undo has just been pressed on an empty log that was never written to file
C7_Witness ==
  /\ last.kind = "undo"
  /\ "undo_empty" \in last.notices
  /\ log_df = << >>
  /\ ~log_file.exists

JustCompleted ==
  "earn_complete" \in last.notices \/ "spend_complete" \in last.notices

\* C9 as claimed: right after completion every session field holds its
\* initial value.
C9_AllFieldsCleared ==
  JustCompleted
    => /\ ~timer_active
       /\ start_time = NoTime
       /\ session_type = "None"
       /\ target_minutes = 0
       /\ xp_value = 0
       /\ session_details = EmptyDetails

\* C9 amended: completion sets timer_active to false and start_time and
\* session_type to None, and leaves target_minutes, xp_value and
\* session_details at the values of the completed session.
C9_TimerStateReset ==
  [][(timer_active /\ ~timer_active')
       => /\ start_time' = NoTime
          /\ session_type' = "None"
          /\ UNCHANGED <<target_minutes, xp_value, session_details>>
          /\ Remaining <= 0
    ]_vars

\* a session has just completed and its target minutes, amount and name are
\* still in the session state
C9_Witness ==
  /\ JustCompleted
  /\ ~timer_active
  /\ start_time = NoTime
  /\ session_type = "None"
  /\ target_minutes > 0
  /\ xp_value > 0
  /\ session_details # EmptyDetails

\* a call of either formula at actual_minutes = base_minutes
AtBoundary ==
  /\ formula_result.fn # "none"
  /\ formula_args.actual_minutes = formula_args.base_minutes

\* C10 as claimed: at actual_minutes = base_minutes the formula returns
\* exactly base_xp, whole or not.
C10_BoundaryExact ==
  AtBoundary => formula_result.value = formula_args.base_xp

\* C10 amended: at actual_minutes = base_minutes the formula returns a whole
\* number of XP at most half an XP away from base_xp, which is base_xp itself
\* exactly when base_xp is a whole number.
C10_BoundaryRounded ==
  AtBoundary
    => /\ formula_result.value % 100 = 0
       /\ formula_result.value - formula_args.base_xp <= 50
       /\ formula_args.base_xp - formula_result.value <= 50
       /\ (formula_result.value = formula_args.base_xp)
            <=> (formula_args.base_xp % 100 = 0)

\* base_xp 5.50 at the boundary gives 6
C10_Witness ==
  /\ AtBoundary
  /\ formula_args.base_xp = 550
  /\ formula_args.multiplier = 120
  /\ formula_result.value = 600

\* the latest call was calculate_task_xp for the task "Read"
ReadCall ==
  /\ formula_result.fn = "calculate_task_xp"
  /\ formula_args \in ReadArgs

\* C11 as stated: for "Read" (base_minutes 10, base_xp 5.00, multiplier 1.20)
\* calculate_task_xp returns 5 for 10 minutes, 14 for 20 minutes and 2.50 for
\* 5 minutes.
C11_ReadExampleAsStated ==
  ReadCall =>
    formula_result.value =
      (CASE formula_args.actual_minutes = 10 -> 500
         [] formula_args.actual_minutes = 20 -> 1400
         [] formula_args.actual_minutes = 5 -> 250)

\* C11: for "Read" (base_minutes 10, base_xp 5.00, multiplier 1.20)
\* calculate_task_xp returns 5 for 10 minutes, 12 for 20 minutes
\* (5/10 * 20 = 10, times 1.2 ** 1) and 2.50 for 5 minutes.
C11_ReadExample ==
  ReadCall =>
    formula_result.value =
      (CASE formula_args.actual_minutes = 10 -> 500
         [] formula_args.actual_minutes = 20 -> 1200
         [] formula_args.actual_minutes = 5 -> 250)

C11_Witness ==
  /\ ReadCall
  /\ formula_args.actual_minutes = 20
  /\ formula_result.value = 1200

\* the other function of the pair applied to the arguments of the latest call
OtherFormulaValue ==
  IF formula_result.fn = "calculate_task_xp"
  THEN calculate_reward_cost(formula_args.base_xp, formula_args.base_minutes,
                             formula_args.multiplier, formula_args.actual_minutes)
  ELSE calculate_task_xp(formula_args.base_xp, formula_args.base_minutes,
                         formula_args.multiplier, formula_args.actual_minutes)

\* C12: whatever (base_xp, base_minutes, multiplier, actual_minutes) one of
\* calculate_task_xp and calculate_reward_cost is called with, below the
\* threshold or not, the other one returns the same value for the same
\* arguments.
C12_OneFormula ==
  formula_result.fn \in {"calculate_task_xp", "calculate_reward_cost"}
    => formula_result.value = OtherFormulaValue

\* a cost computed past the threshold with a fractional exponent (3 minutes on
\* a 2-minute base, multiplier 1.20) and a proportional one before it
C12_Witness ==
  /\ formula_result.fn = "calculate_reward_cost"
  /\ formula_args.base_minutes = 2
  /\ formula_args.actual_minutes = 3
  /\ formula_args.multiplier = 120
  /\ formula_args.base_xp = 550
  /\ formula_result.value = 900
  /\ calculate_task_xp(550, 2, 120, 1) = 275
  /\ calculate_reward_cost(550, 2, 120, 1) = 275

\* the collection is empty in memory and in its file
TasksCleared == tasks = EmptyDict /\ load_json(tasks_file) = EmptyDict
RewardsCleared == rewards = EmptyDict /\ load_json(rewards_file) = EmptyDict
LogCleared == log_df = EmptyLog /\ load_log(log_file) = EmptyLog

\* C13: a run of reset_xp_log, reset_tasks, reset_rewards or reset_all_data in
\* which a storage step (os.remove or a write) fails leaves the collections
\* and what the files hold as they were; a run in which none fails leaves every
\* collection the reset is about empty in memory and in its file. So
\* reset_all_data never leaves some of tasks, rewards and log cleared and
\* others not.
C13_ResetAllOrNothing ==
  [][last'.kind \in ResetKinds
       => IF "exception" \in last'.notices
          THEN /\ UNCHANGED store_vars
               /\ load_json(tasks_file') = load_json(tasks_file)
               /\ load_json(rewards_file') = load_json(rewards_file)
               /\ load_log(log_file') = load_log(log_file)
          ELSE /\ last'.kind \in {"reset_xp", "reset_all"} => LogCleared'
               /\ last'.kind \in {"reset_tasks", "reset_all"} => TasksCleared'
               /\ last'.kind \in {"reset_rewards", "reset_all"} => RewardsCleared'
    ]_vars

\* C14: in every reachable state, a failed save_log of an Earn completion, a
\* Spend start or an undo included, the XP log in memory (log_df) equals the
\* XP log in storage (what load_log reads from xp_log.csv).
C14_MemoryEqualsStorage == log_df = load_log(log_file)

\* C15: in every reachable state the rows of the XP log are in non-decreasing
\* order of their time, so the last row (the one undo_last_action drops) has
\* the greatest time of all rows, however Spend starts (stamped at the start)
\* and Earn completions (stamped at the completion) interleave.
C15_LogInTimeOrder ==
  /\ \A i \in 1..(Len(log_df) - 1) : log_df[i].time <= log_df[i + 1].time
  /\ \A i \in 1..Len(log_df) : log_df[i].time <= log_df[Len(log_df)].time

\* an Earn row, then a Spend row stamped at its start, then a later Earn row
C15_Witness ==
  /\ Len(log_df) = 3
  /\ log_df[1].type = "Add"
  /\ log_df[2].type = "Spend"
  /\ log_df[3].type = "Add"
  /\ log_df[1].time < log_df[2].time
  /\ log_df[2].time < log_df[3].time

\* C16: a tick run made while the running session has time left (remaining
\* seconds > 0) changes nothing: not the six session fields, not the XP log,
\* not the task and reward definitions, not the files; this at every such
\* tick, whatever the time since the one before.
C16_TickIsPureRead ==
  [][(timer_active /\ Remaining > 0 /\ last'.kind = "tick")
       => UNCHANGED <<session_vars, store_vars, file_vars>>]_vars

\* a tick halfway through a 2-minute Earn session
C16_Witness ==
  /\ last.kind = "tick"
  /\ EarnRunning
  /\ now > start_time
  /\ Remaining > 0
  /\ Remaining < target_minutes * SecondsPerMinute

\* the Earn session has just ended and its row is the last of the XP log
EarnLogged ==
  /\ ~timer_active
  /\ "earn_complete" \in last.notices
  /\ log_df # << >>
  /\ log_df[Len(log_df)] =
       [time |-> now, type |-> "Add", name |-> session_details.name,
        minutes |-> target_minutes, xp |-> xp_value]

\* C17: with the clock going on and the running view rerunning (weak fairness
\* of AdvanceClock and Tick), a state with a running session is followed by a
\* state with no running session, and a state with a running Earn session by
\* the state in which that session has ended and its Add row has been appended.
C17_SessionCompletes ==
  /\ timer_active ~> ~timer_active
  /\ EarnRunning ~> EarnLogged

\* a 2-minute Earn session that has ended, its row stamped two minutes after
\* the start of the clock or later
C17_Witness ==
  /\ EarnLogged
  /\ target_minutes = 2
  /\ last.kind = "tick"
  /\ now >= 2 * SecondsPerMinute

\* C18: reset_xp_log empties the XP log (the balance becomes 0) and leaves the
\* tasks and the rewards, in memory and in their files, as they were;
\* reset_tasks empties the tasks and leaves the rewards and the XP log as they
\* were; reset_rewards empties the rewards and leaves the tasks and the XP log
\* as they were; and a reset leaves the XP log either whole or empty, never
\* without its Add rows only or its Spend rows only.
C18_GranularResets ==
  [][/\ last'.kind = "reset_xp"
          => /\ LogCleared'
             /\ compute_total_xp(log_df') = FloatZero
             /\ UNCHANGED <<tasks, rewards, tasks_file, rewards_file>>
     /\ last'.kind = "reset_tasks"
          => /\ TasksCleared'
             /\ UNCHANGED <<rewards, log_df, rewards_file, log_file>>
     /\ last'.kind = "reset_rewards"
          => /\ RewardsCleared'
             /\ UNCHANGED <<tasks, log_df, tasks_file, log_file>>
     /\ last'.kind \in ResetKinds => log_df' \in {log_df, EmptyLog}
    ]_vars

\* the tasks reset with a reward defined and an Add and a Spend row logged
C18_Witness ==
  /\ last.kind = "reset_tasks"
  /\ tasks = EmptyDict
  /\ rewards # EmptyDict
  /\ \E i, j \in 1..Len(log_df) : log_df[i].type = "Add" /\ log_df[j].type = "Spend"

\* C19: in every state reached by Earn starts and completions, Spend starts,
\* undos and resets the balance (compute_total_xp of the XP log) is at least 0.
C19_BalanceNotNegative == ~FloatLess(Balance, FloatZero)

\* the Add row the running session stands for
SessionRow(t) ==
  [time |-> t, type |-> "Add", name |-> session_details.name,
   minutes |-> target_minutes, xp |-> xp_value]

\* C20: the Earn start fixes the name, the minutes and the amount (computed
\* from the task definition of that moment); while the Earn session runs no
\* step changes them - saving, updating or deleting a task or a reward, the
\* session's own task included, changes no session field at all - and the
\* run that ends the session appends the row made of exactly these values.
C20_EntryFixedAtStart ==
  [][/\ (~EarnRunning /\ EarnRunning')
          => /\ session_details'.name \in DOMAIN tasks
             /\ session_details'.minutes = target_minutes'
             /\ xp_value' =
                  calculate_task_xp(tasks[session_details'.name].base_xp,
                                    tasks[session_details'.name].base_minutes,
                                    tasks[session_details'.name].multiplier,
                                    target_minutes')
     /\ EarnRunning
          => /\ UNCHANGED <<target_minutes, xp_value, session_details>>
             /\ EarnRunning' => UNCHANGED session_vars
             /\ ~EarnRunning' => log_df' = Append(log_df, SessionRow(now))
    ]_vars

\* an Earn session has just ended and its row carries an amount that the
\* definition the task has by now would not give: the task was updated
\* while the session was running
C20_Witness ==
  /\ last.kind = "tick"
  /\ "earn_complete" \in last.notices
  /\ log_df # << >>
  /\ log_df[Len(log_df)] = SessionRow(now)
  /\ session_details.name \in DOMAIN tasks
  /\ xp_value #
       calculate_task_xp(tasks[session_details.name].base_xp,
                         tasks[session_details.name].base_minutes,
                         tasks[session_details.name].multiplier,
                         target_minutes)

====
